---- MODULE Spec2Model ----
(***************************************************************************)
(* Model of api_scripts/prepare_fine_tune_data_gpt.py: one run of main().  *)
(* Text (file names, file contents, persona, service replies) is a tuple   *)
(* of one-character strings.  The file system, the synthesis service and   *)
(* the output file are the environment: every outcome they can produce is  *)
(* drawn nondeterministically at the step that consumes it.                *)
(***************************************************************************)
EXTENDS Naturals, Sequences, FiniteSets

VARIABLES
    pc,                 \* position of the single thread of control
    args_persona,       \* args.persona
    dir_kind,           \* what args.data_dir names: "dir", "missing", "notdir"
    out_openable,       \* whether open(args.output_file, "w") can succeed
    out_before,         \* the output file as it was before the run
    out_file,           \* the output file now
    persona,            \* self.persona
    listing,            \* the value of os.listdir(self.data_directory)
    idx,                \* position of the for loop in listing
    assistant_response, \* local of _process_text_file
    simulated_query,    \* local of _process_text_file
    training_data,      \* local of generate_training_data
    w,                  \* position of the write loop in training_data
    error,              \* the exception that ended the run, or "none"
    reads,              \* log: every open() of an input file, in order
    calls,              \* log: every chat.completions.create call, in order
    returned,           \* log: every outcome of such a call, in order
    pending             \* number of calls issued and not yet returned

vars == <<pc, args_persona, dir_kind, out_openable, out_before, out_file,
          persona, listing, idx, assistant_response, simulated_query,
          training_data, w, error, reads, calls, returned, pending>>

(* ------------------------------ bounds --------------------------------- *)

MaxFiles == 2       \* entries in the input directory
MaxLen == 3         \* characters in a reply of the synthesis service

(* ------------------------------- text ---------------------------------- *)

Chars == {"a", " "}

IsSpace(c) == c = " "

RECURSIVE StringsUpTo(_)
StringsUpTo(n) ==
    IF n = 0 THEN {<<>>}
    ELSE LET shorter == StringsUpTo(n - 1)
         IN  shorter \cup {Append(s, c) : s \in {t \in shorter : Len(t) = n - 1}, c \in Chars}

RECURSIVE LStrip(_)
LStrip(s) == IF s = <<>> \/ ~IsSpace(Head(s)) THEN s ELSE LStrip(Tail(s))

RECURSIVE RStrip(_)
RStrip(s) ==
    IF s = <<>> \/ ~IsSpace(s[Len(s)]) THEN s ELSE RStrip(SubSeq(s, 1, Len(s) - 1))

\* a strip that forgets the trailing side
StripLeadingOnly(s) == LStrip(s)

\* str.strip()
Strip(s) == RStrip(LStrip(s))

\* str.endswith(suffix)
EndsWith(s, suffix) ==
    /\ Len(suffix) <= Len(s)
    /\ \A i \in 1..Len(suffix) : s[Len(s) - Len(suffix) + i] = suffix[i]

TxtExt == <<".", "t", "x", "t">>

\* a loop without the extension filter
QualifiesAlways(filename) == Len(filename) >= 0

\* the filter of the for loop
Qualifies(filename) == EndsWith(filename, TxtExt)

(* ---------------------------- environment ------------------------------ *)

Names ==
    { <<"a", ".", "t", "x", "t">>,
      <<"b", ".", "t", "x", "t">>,
      <<"c", ".", "m", "d">> }

Distinct(l) == \A i, j \in DOMAIN l : i /= j => l[i] /= l[j]

\* os.listdir yields each entry once, in an order of the file system's choosing
Listings ==
    UNION { {l \in [1..n -> Names] : Distinct(l)} : n \in 0..MaxFiles }

FileTexts == { <<"a">>, <<" ", "a", " ">> }

Personas == { <<"p">>, <<" ", "q", " ">> }

StaleLine == [messages |-> <<>>]

OutFilesBefore ==
    { [exists |-> FALSE, lines |-> <<>>],
      [exists |-> TRUE, lines |-> <<StaleLine>>] }

\* what client.chat.completions.create(...).choices[0].message.content can be:
\* the call raises, the content is None, or the content is a string
ServiceOutcomes ==
    { [kind |-> "error", text |-> <<>>], [kind |-> "none", text |-> <<>>] }
    \cup { [kind |-> "text", text |-> t] : t \in StringsUpTo(MaxLen) }

(* ----------------------------- the record ------------------------------ *)

Message(role, content) == [role |-> role, content |-> content]

\* a record whose assistant turn is trimmed like the query
DataEntryTrimmed(p, q, r) ==
    [messages |-> << Message("system", p), Message("user", q),
                     Message("assistant", RStrip(LStrip(r))) >>]

\* the dict returned by _process_text_file
DataEntry(p, q, r) ==
    [messages |-> << Message("system", p), Message("user", q), Message("assistant", r) >>]

(* ------------------------------- Init ---------------------------------- *)

Init ==
    /\ pc = "start"
    /\ args_persona \in Personas
    /\ dir_kind \in {"dir", "missing", "notdir"}
    /\ out_openable \in BOOLEAN
    /\ out_before \in OutFilesBefore
    /\ out_file = out_before
    /\ persona = <<>>
    /\ listing = <<>>
    /\ idx = 0
    /\ assistant_response = <<>>
    /\ simulated_query = <<>>
    /\ training_data = <<>>
    /\ w = 0
    /\ error = "none"
    /\ reads = <<>>
    /\ calls = <<>>
    /\ returned = <<>>
    /\ pending = 0

(* ------------------------------ actions -------------------------------- *)

\* an uncaught exception ends the run
Raise(kind) ==
    /\ pc' = "failed"
    /\ error' = kind

\* FineTuningDataPreprocessor(args.persona, args.data_dir)
Construct ==
    /\ pc = "start"
    /\ persona' = args_persona
    /\ pc' = "listdir"
    /\ UNCHANGED <<args_persona, dir_kind, out_openable, out_before, out_file,
                   listing, idx, assistant_response, simulated_query,
                   training_data, w, error, reads, calls, returned, pending>>

\* a listing that treats an unusable directory as an empty one
ListDirFailAsEmpty ==
    /\ pc = "listdir"
    /\ dir_kind /= "dir"
    /\ training_data' = <<>>
    /\ listing' = <<>>
    /\ idx' = 1
    /\ pc' = "loop"
    /\ UNCHANGED <<args_persona, dir_kind, out_openable, out_before, out_file,
                   persona, assistant_response, simulated_query,
                   w, error, reads, calls, returned, pending>>

\* training_data = []; os.listdir(self.data_directory) raises
ListDirFail ==
    /\ pc = "listdir"
    /\ dir_kind /= "dir"
    /\ training_data' = <<>>
    /\ Raise("FilesystemError")
    /\ UNCHANGED <<args_persona, dir_kind, out_openable, out_before, out_file,
                   persona, listing, idx, assistant_response, simulated_query,
                   w, reads, calls, returned, pending>>

\* training_data = []; os.listdir(self.data_directory) yields the entries
ListDirOk ==
    /\ pc = "listdir"
    /\ dir_kind = "dir"
    /\ training_data' = <<>>
    /\ \E l \in Listings : listing' = l
    /\ idx' = 1
    /\ pc' = "loop"
    /\ UNCHANGED <<args_persona, dir_kind, out_openable, out_before, out_file,
                   persona, assistant_response, simulated_query,
                   w, error, reads, calls, returned, pending>>

\* for filename in ...: the filter rejects the entry
LoopSkip ==
    /\ pc = "loop"
    /\ idx <= Len(listing)
    /\ ~Qualifies(listing[idx])
    /\ idx' = idx + 1
    /\ UNCHANGED <<pc, args_persona, dir_kind, out_openable, out_before, out_file,
                   persona, listing, assistant_response, simulated_query,
                   training_data, w, error, reads, calls, returned, pending>>

\* for filename in ...: the filter accepts the entry, _process_text_file is entered
LoopEnter ==
    /\ pc = "loop"
    /\ idx <= Len(listing)
    /\ Qualifies(listing[idx])
    /\ pc' = "read"
    /\ UNCHANGED <<args_persona, dir_kind, out_openable, out_before, out_file,
                   persona, listing, idx, assistant_response, simulated_query,
                   training_data, w, error, reads, calls, returned, pending>>

\* open(file_path) or file.read() raises
ReadFail ==
    /\ pc = "read"
    /\ reads' = Append(reads, [name |-> listing[idx], ok |-> FALSE, content |-> <<>>])
    /\ Raise("FileReadError")
    /\ UNCHANGED <<args_persona, dir_kind, out_openable, out_before, out_file,
                   persona, listing, idx, assistant_response, simulated_query,
                   training_data, w, calls, returned, pending>>

\* assistant_response = file.read()
ReadOk ==
    /\ pc = "read"
    /\ \E c \in FileTexts :
          /\ assistant_response' = c
          /\ reads' = Append(reads, [name |-> listing[idx], ok |-> TRUE, content |-> c])
    /\ pc' = "call"
    /\ UNCHANGED <<args_persona, dir_kind, out_openable, out_before, out_file,
                   persona, listing, idx, simulated_query,
                   training_data, w, error, calls, returned, pending>>

\* a dispatch that does not wait for the reply before the next file
IssueCallNoAwait ==
    /\ pc = "call"
    /\ calls' = Append(calls, [name |-> listing[idx], input |-> assistant_response])
    /\ pending' = pending + 1
    /\ idx' = idx + 1
    /\ pc' = "loop"
    /\ UNCHANGED <<args_persona, dir_kind, out_openable, out_before, out_file,
                   persona, listing, assistant_response, simulated_query,
                   training_data, w, error, reads, returned>>

\* self.client.chat.completions.create(...) is issued
IssueCall ==
    /\ pc = "call"
    /\ calls' = Append(calls, [name |-> listing[idx], input |-> assistant_response])
    /\ pending' = pending + 1
    /\ pc' = "await"
    /\ UNCHANGED <<args_persona, dir_kind, out_openable, out_before, out_file,
                   persona, listing, idx, assistant_response, simulated_query,
                   training_data, w, error, reads, returned>>

\* a call whose failure is swallowed: the file is skipped and the loop goes on
CallReturnSkipsFailure ==
    /\ pc = "await"
    /\ pending' = pending - 1
    /\ \E r \in ServiceOutcomes :
          /\ returned' = Append(returned, r)
          /\ IF r.kind /= "text"
                THEN /\ idx' = idx + 1
                     /\ pc' = "loop"
                     /\ UNCHANGED simulated_query
                ELSE /\ simulated_query' = Strip(r.text)
                     /\ pc' = "assemble"
                     /\ UNCHANGED idx
    /\ UNCHANGED <<args_persona, dir_kind, out_openable, out_before, out_file,
                   persona, listing, assistant_response, error,
                   training_data, w, reads, calls>>

\* the call returns or raises; return response.choices[0].message.content.strip()
CallReturn ==
    /\ pc = "await"
    /\ pending' = pending - 1
    /\ \E r \in ServiceOutcomes :
          /\ returned' = Append(returned, r)
          /\ IF r.kind = "error"
                THEN Raise("ExternalServiceError") /\ UNCHANGED simulated_query
             ELSE IF r.kind = "none"
                THEN Raise("AttributeError") /\ UNCHANGED simulated_query
             ELSE /\ simulated_query' = Strip(r.text)
                  /\ pc' = "assemble"
                  /\ UNCHANGED error
    /\ UNCHANGED <<args_persona, dir_kind, out_openable, out_before, out_file,
                   persona, listing, idx, assistant_response,
                   training_data, w, reads, calls>>

\* an append at the front of the list
AppendRecordAtFront ==
    /\ pc = "assemble"
    /\ training_data' =
          <<DataEntry(persona, simulated_query, assistant_response)>> \o training_data
    /\ idx' = idx + 1
    /\ pc' = "loop"
    /\ UNCHANGED <<args_persona, dir_kind, out_openable, out_before, out_file,
                   persona, listing, assistant_response, simulated_query,
                   w, error, reads, calls, returned, pending>>

\* an append that also flushes the record to the output file
AppendRecordAndFlush ==
    /\ pc = "assemble"
    /\ training_data' =
          Append(training_data, DataEntry(persona, simulated_query, assistant_response))
    /\ out_file' =
          [exists |-> TRUE,
           lines |-> Append(IF training_data = <<>> THEN <<>> ELSE out_file.lines,
                            DataEntry(persona, simulated_query, assistant_response))]
    /\ idx' = idx + 1
    /\ pc' = "loop"
    /\ UNCHANGED <<args_persona, dir_kind, out_openable, out_before,
                   persona, listing, assistant_response, simulated_query,
                   w, error, reads, calls, returned, pending>>

\* return {"messages": [...]}; training_data.append(data_entry)
AppendRecord ==
    /\ pc = "assemble"
    /\ training_data' =
          Append(training_data, DataEntry(persona, simulated_query, assistant_response))
    /\ idx' = idx + 1
    /\ pc' = "loop"
    /\ UNCHANGED <<args_persona, dir_kind, out_openable, out_before, out_file,
                   persona, listing, assistant_response, simulated_query,
                   w, error, reads, calls, returned, pending>>

\* a loop exit that refuses an empty dataset
LoopExitRequiresData ==
    /\ pc = "loop"
    /\ idx > Len(listing)
    /\ IF training_data = <<>>
          THEN Raise("ValueError")
          ELSE pc' = "open" /\ UNCHANGED error
    /\ UNCHANGED <<args_persona, dir_kind, out_openable, out_before, out_file,
                   persona, listing, idx, assistant_response, simulated_query,
                   training_data, w, reads, calls, returned, pending>>

\* the for loop is exhausted: return training_data
LoopExit ==
    /\ pc = "loop"
    /\ idx > Len(listing)
    /\ pc' = "open"
    /\ UNCHANGED <<args_persona, dir_kind, out_openable, out_before, out_file,
                   persona, listing, idx, assistant_response, simulated_query,
                   training_data, w, error, reads, calls, returned, pending>>

\* open(args.output_file, "w") raises
OpenFail ==
    /\ pc = "open"
    /\ ~out_openable
    /\ Raise("OutputWriteError")
    /\ UNCHANGED <<args_persona, dir_kind, out_openable, out_before, out_file,
                   persona, listing, idx, assistant_response, simulated_query,
                   training_data, w, reads, calls, returned, pending>>

\* open(args.output_file, "w") creates or truncates the file
OpenOk ==
    /\ pc = "open"
    /\ out_openable
    /\ out_file' = [exists |-> TRUE, lines |-> <<>>]
    /\ w' = 1
    /\ pc' = "write"
    /\ UNCHANGED <<args_persona, dir_kind, out_openable, out_before,
                   persona, listing, idx, assistant_response, simulated_query,
                   training_data, error, reads, calls, returned, pending>>

\* json.dump(data_entry, f); f.write("\n")
\* a line is modelled as the JSON object it encodes
WriteLine ==
    /\ pc = "write"
    /\ w <= Len(training_data)
    /\ out_file' = [out_file EXCEPT !.lines = Append(@, training_data[w])]
    /\ w' = w + 1
    /\ UNCHANGED <<pc, args_persona, dir_kind, out_openable, out_before,
                   persona, listing, idx, assistant_response, simulated_query,
                   training_data, error, reads, calls, returned, pending>>

\* json.dump or f.write raises; the lines already written stay
WriteFail ==
    /\ pc = "write"
    /\ w <= Len(training_data)
    /\ Raise("OutputWriteError")
    /\ UNCHANGED <<args_persona, dir_kind, out_openable, out_before, out_file,
                   persona, listing, idx, assistant_response, simulated_query,
                   training_data, w, reads, calls, returned, pending>>

\* the with block ends: the run succeeds
Close ==
    /\ pc = "write"
    /\ w > Len(training_data)
    /\ pc' = "done"
    /\ UNCHANGED <<args_persona, dir_kind, out_openable, out_before, out_file,
                   persona, listing, idx, assistant_response, simulated_query,
                   training_data, w, error, reads, calls, returned, pending>>

Next ==
    \/ Construct
    \/ ListDirFail
    \/ ListDirOk
    \/ LoopSkip
    \/ LoopEnter
    \/ ReadFail
    \/ ReadOk
    \/ IssueCall
    \/ CallReturn
    \/ AppendRecord
    \/ LoopExit
    \/ OpenFail
    \/ OpenOk
    \/ WriteLine
    \/ WriteFail
    \/ Close

Spec == Init /\ [][Next]_vars

(* ------------------- vocabulary of the properties ---------------------- *)

\* the name's last four characters are ".txt"
HasTxtSuffix(n) == Len(n) >= 4 /\ SubSeq(n, Len(n) - 3, Len(n)) = <<".", "t", "x", "t">>

\* the qualifying entries of a listing, in the listing's order
QualifyingOf(l) == SelectSeq(l, HasTxtSuffix)

AllSpace(s) == \A i \in DOMAIN s : s[i] = " "

\* t is s without its leading and trailing whitespace, nothing else changed
IsTrimOf(t, s) ==
    \E i \in 1..(Len(s) + 1) : \E j \in 0..Len(s) :
        /\ t = SubSeq(s, i, j)
        /\ \A k \in 1..(i - 1) : s[k] = " "
        /\ \A k \in (j + 1)..Len(s) : s[k] = " "
        /\ t /= <<>> => (t[1] /= " " /\ t[Len(t)] /= " ")

UserContent(e) == e.messages[2].content

\* the lines the run itself wrote (a stale line of an earlier file is no record)
RecordLines == {i \in DOMAIN out_file.lines : Len(out_file.lines[i].messages) = 3}

ProcessingErrors == {"FileReadError", "ExternalServiceError", "AttributeError"}

\* generate_training_data has returned
Returned == pc \in {"open", "write", "done"} \/ (pc = "failed" /\ error = "OutputWriteError")

(* ------------------------------ claims --------------------------------- *)

\* C1: a reply that is empty or whitespace-only fails the run with an
\* ExternalServiceError; no record with an empty user query is assembled and no
\* output line with an empty user content is written.
C1_WhitespaceReplyFailsRun ==
    /\ \A i \in DOMAIN returned :
          (returned[i].kind = "text" /\ AllSpace(returned[i].text))
             => (pc = "failed" /\ error = "ExternalServiceError")
    /\ \A i \in DOMAIN training_data : UserContent(training_data[i]) /= <<>>
    /\ \A i \in RecordLines : UserContent(out_file.lines[i]) /= <<>>

\* C2: every assembled record has exactly three messages, roles system, user,
\* assistant in that order, the system content is the run's persona and the
\* assistant content is the file's content exactly as read.
C2_RecordShape ==
    \A i \in DOMAIN training_data :
        LET m == training_data[i].messages
        IN  /\ Len(m) = 3
            /\ <<m[1].role, m[2].role, m[3].role>> = <<"system", "user", "assistant">>
            /\ m[1].content = args_persona
            /\ i <= Len(reads)
            /\ reads[i].ok
            /\ m[3].content = reads[i].content

C2_Witness ==
    /\ Len(training_data) = 2
    /\ training_data[1].messages[3].content = <<" ", "a", " ">>
    /\ training_data[2].messages[3].content = <<"a">>
    /\ args_persona = <<" ", "q", " ">>

\* C3: once generate_training_data has returned, the dataset holds exactly one
\* record per .txt entry, the k-th record built from the k-th such entry of the
\* listing; on success the output file holds exactly these records, one per line.
C3_OneRecordPerTxtEntry ==
    LET q == QualifyingOf(listing)
    IN  /\ Returned =>
            /\ Len(training_data) = Len(q)
            /\ Len(reads) = Len(q)
            /\ Len(returned) = Len(q)
            /\ \A k \in DOMAIN q :
                  /\ reads[k].name = q[k]
                  /\ training_data[k].messages[3].content = reads[k].content
                  /\ IsTrimOf(UserContent(training_data[k]), returned[k].text)
        /\ pc = "done" =>
            /\ Len(out_file.lines) = Len(q)
            /\ \A k \in DOMAIN q : out_file.lines[k] = training_data[k]

C3_Witness ==
    /\ pc = "done"
    /\ Len(out_file.lines) = 2
    /\ out_file.lines[1] /= out_file.lines[2]
    /\ reads[1].content /= reads[2].content

\* C4: an entry whose name does not end in .txt is never read, no call is issued
\* for it and no record or line comes from it.
C4_NonTxtIgnored ==
    /\ \A i \in DOMAIN reads : HasTxtSuffix(reads[i].name)
    /\ \A i \in DOMAIN calls : HasTxtSuffix(calls[i].name)
    /\ Len(training_data) <= Len(QualifyingOf(listing))
    /\ Cardinality(RecordLines) <= Len(QualifyingOf(listing))
    /\ pc \in {"read", "call", "await", "assemble"} => HasTxtSuffix(listing[idx])

C4_Witness ==
    /\ pc = "done"
    /\ Len(listing) = 2
    /\ ~HasTxtSuffix(listing[1])
    /\ HasTxtSuffix(listing[2])
    /\ Len(out_file.lines) = 1

\* C5: the first read failure or call failure ends the run in failure: it is the
\* last read or call of the run, nothing is read or called twice.
C5_FailFast ==
    /\ \A i \in DOMAIN reads :
          ~reads[i].ok =>
              /\ pc = "failed" /\ error = "FileReadError"
              /\ i = Len(reads)
              /\ Len(calls) = i - 1
    /\ \A i \in DOMAIN returned :
          returned[i].kind /= "text" =>
              /\ pc = "failed" /\ error \in {"ExternalServiceError", "AttributeError"}
              /\ i = Len(returned)
              /\ Len(calls) = i
              /\ Len(reads) = i
    /\ \A i, j \in DOMAIN reads : i /= j => reads[i].name /= reads[j].name
    /\ \A i, j \in DOMAIN calls : i /= j => calls[i].name /= calls[j].name
    /\ (pc = "failed" /\ error \in ProcessingErrors) =>
          /\ pending = 0
          /\ Len(training_data) = Len(reads) - 1

C5_Witness ==
    /\ pc = "failed"
    /\ error = "ExternalServiceError"
    /\ Len(QualifyingOf(listing)) = 2
    /\ Len(reads) = 1

\* C6: while files are processed, and after a failure there, the output file is
\* as it was before the run; it is touched only once every qualifying file has
\* been processed.
C6_OutputUntouchedOnFailure ==
    /\ (pc \in {"start", "listdir", "loop", "read", "call", "await", "assemble"}
          \/ (pc = "failed" /\ error \in ProcessingErrors))
          => out_file = out_before
    /\ out_file /= out_before =>
          /\ Returned
          /\ Len(training_data) = Len(QualifyingOf(listing))

C6_Witness ==
    /\ pc = "failed"
    /\ error \in ProcessingErrors
    /\ Len(training_data) = 1
    /\ out_before.exists

\* C7: when the input directory is missing or not a directory the run fails
\* with no file read, no call issued and the output file as it was.
C7_BadDirectoryFailsFirst ==
    dir_kind /= "dir" =>
        /\ pc \in {"start", "listdir", "failed"}
        /\ pc = "failed" => error = "FilesystemError"
        /\ reads = <<>>
        /\ calls = <<>>
        /\ pending = 0
        /\ out_file = out_before

C7_Witness ==
    /\ dir_kind = "missing"
    /\ pc = "failed"
    /\ out_before.exists

\* C8: when the directory is listed and holds no .txt entry (and the output
\* file can be opened) the run never fails, issues no call, always has a next
\* step until it is done, and ends with the output file created with zero lines.
C8_NoQualifyingEntry ==
    (pc \notin {"start", "listdir"} /\ dir_kind = "dir"
        /\ QualifyingOf(listing) = <<>> /\ out_openable) =>
        /\ pc /= "failed"
        /\ error = "none"
        /\ reads = <<>>
        /\ calls = <<>>
        /\ pc /= "done" => ENABLED Next
        /\ pc = "done" => out_file = [exists |-> TRUE, lines |-> <<>>]

C8_Witness ==
    /\ pc = "done"
    /\ dir_kind = "dir"
    /\ Len(listing) = 1
    /\ QualifyingOf(listing) = <<>>
    /\ out_before.exists

\* C9: the user content of every assembled record is the service's reply for
\* that file with leading and trailing whitespace removed, nothing else changed.
C9_UserIsTrimmedReply ==
    \A i \in DOMAIN training_data :
        /\ i <= Len(returned)
        /\ returned[i].kind = "text"
        /\ i <= Len(calls)
        /\ calls[i].input = training_data[i].messages[3].content
        /\ IsTrimOf(UserContent(training_data[i]), returned[i].text)

C9_Witness ==
    /\ Len(training_data) = 2
    /\ returned[1].text = <<" ", "a", " ">>
    /\ returned[2].text = <<"a", " ", "a">>

\* C10: one call per qualifying file, in listing order, each after its own
\* file was read; at most one call is outstanding and at most one issued call
\* has no record yet, so a call is issued only after the previous one returned
\* and its record was appended.
C10_StrictlySequential ==
    LET q == QualifyingOf(listing)
    IN  /\ pending \in {0, 1}
        /\ Len(returned) = Len(calls) - pending
        /\ Len(calls) <= Len(q)
        /\ \A k \in DOMAIN calls :
              /\ calls[k].name = q[k]
              /\ k <= Len(reads)
              /\ reads[k].ok
              /\ reads[k].name = calls[k].name
              /\ calls[k].input = reads[k].content
        /\ Len(reads) <= Len(calls) + 1
        /\ Len(training_data) <= Len(calls)
        /\ Len(calls) <= Len(training_data) + 1
        /\ pending = 1 => Len(training_data) = Len(calls) - 1
        /\ Returned => Len(calls) = Len(q)

C10_Witness ==
    /\ pending = 1
    /\ Len(calls) = 2
    /\ Len(training_data) = 1

====
